---- MODULE Spec2Model ----
(***************************************************************************)
(* Model of pdf_text_extractor.py: the orchestrator main(), the two        *)
(* extractors extract_text_simple and extract_text_with_ocr, and the two   *)
(* writers save_to_docx and save_to_txt.                                   *)
(*                                                                         *)
(* A Python str is a sequence of one-character strings.  A value that may  *)
(* be None is a record [null, s].  The external libraries (PyMuPDF,        *)
(* pytesseract, python-docx, the file system, the operator at the prompt)  *)
(* are the environment: each of their outcomes is chosen with \E.          *)
(***************************************************************************)
EXTENDS Naturals, Sequences, FiniteSets

(* ------------------------------ bounds ---------------------------------- *)
\* largest page count of a PDF
MaxPages == 2
\* longest text handed to the document writer in SpecDocx
MaxLen == 4

(* --------------------------- Python values ------------------------------ *)
None == [null |-> TRUE, s |-> <<>>]

Str(s) == [null |-> FALSE, s |-> s]

\* Python truthiness of an Optional[str]
Truthy(v) == ~v.null /\ v.s # <<>>

\* characters str.strip() removes
IsSpace(c) == c \in {" ", "\t", "\n", "\r", "\f"}

RECURSIVE LStrip(_)
LStrip(s) == IF s # <<>> /\ IsSpace(Head(s)) THEN LStrip(Tail(s)) ELSE s

RECURSIVE RStrip(_)
RStrip(s) == IF s # <<>> /\ IsSpace(s[Len(s)]) THEN RStrip(SubSeq(s, 1, Len(s) - 1)) ELSE s

\* str.strip()
Strip(s) == RStrip(LStrip(s))

RECURSIVE LStripChar(_, _)
LStripChar(s, ch) == IF s # <<>> /\ Head(s) = ch THEN LStripChar(Tail(s), ch) ELSE s

RECURSIVE RStripChar(_, _)
RStripChar(s, ch) == IF s # <<>> /\ s[Len(s)] = ch THEN RStripChar(SubSeq(s, 1, Len(s) - 1), ch) ELSE s

\* str.strip(ch) for a one-character ch
StripChar(s, ch) == RStripChar(LStripChar(s, ch), ch)

\* str.split('\n'), scanning left to right; cur is the piece being read
RECURSIVE SplitFrom(_, _)
SplitFrom(s, cur) ==
  IF s = <<>> THEN <<cur>>
  ELSE IF Head(s) = "\n" THEN <<cur>> \o SplitFrom(Tail(s), <<>>)
  ELSE SplitFrom(Tail(s), Append(cur, Head(s)))

Split(s) == SplitFrom(s, <<>>)

Digit(d) == <<"0", "1", "2", "3", "4", "5", "6", "7", "8", "9">>[d + 1]

\* str(n) for n >= 0, as the f-string formats it
RECURSIVE Dec(_)
Dec(n) == IF n < 10 THEN <<Digit(n)>> ELSE Dec(n \div 10) \o <<Digit(n % 10)>>

\* f"\n--- Page {n} ---\n"
PageHeader(n) ==
  <<"\n", "-", "-", "-", " ", "P", "a", "g", "e", " ">> \o Dec(n) \o <<" ", "-", "-", "-", "\n">>

(* ------------------------- pieces of the code --------------------------- *)
\* the loop body shared by both extractors: a page whose text is not blank
\* is appended behind its header, a blank page leaves the text alone
AppendPageOffByOne(text, page_num, page_text) ==
  IF Strip(page_text) # <<>>
  THEN text \o PageHeader(page_num) \o page_text \o <<"\n">>
  ELSE text

AppendPage(text, page_num, page_text) ==
  IF Strip(page_text) # <<>>
  THEN text \o PageHeader(page_num + 1) \o page_text \o <<"\n">>
  ELSE text

\* return text if text.strip() else None
SimpleResult(text) == IF Strip(text) # <<>> THEN Str(text) ELSE None

\* not extracted_text or not extracted_text.strip()
NoText(v) == ~Truthy(v) \/ Strip(v.s) = <<>>

\* line 155: the test that sends main() to the OCR path
NeedsFallbackAlways(v) == TRUE

NeedsFallback(v) == NoText(v)

\* line 167: the test that aborts main() after extraction
ExtractionFailedNullOnly(v) == v.null

ExtractionFailed(v) == NoText(v)

\* sys.argv[1], or input(...).strip().strip('"')
ResolvePath(argv, raw) == IF Len(argv) > 1 THEN argv[2] ELSE StripChar(Strip(raw), "\"")

\* not os.path.exists(pdf_path)
FileMissingNever(path, fs) == FALSE

FileMissing(path, fs) == path \notin fs

\* choice in ['1', '3']
WantsDocxNotTwo(choice) == choice # <<"2">>

WantsDocx(choice) == choice \in {<<"1">>, <<"3">>}

\* choice in ['2', '3']
WantsTxt(choice) == choice \in {<<"2">>, <<"3">>}

\* success = save_to_...(...) or success
NewSuccessOverwrite(r, success) == r

NewSuccessAlways(r, success) == TRUE

NewSuccess(r, success) == r \/ success

\* the paragraphs save_to_docx adds: the pieces of text.split('\n') that
\* are not blank
DocxParagraphsKeepBlank(text) == SelectSeq(Split(text), LAMBDA p : p # <<>>)

DocxParagraphs(text) == SelectSeq(Split(text), LAMBDA p : Strip(p) # <<>>)

HeadingText == "Extracted PDF Text"

\* save_to_docx(text, output_path) under the library outcome o:
\* "create_error" (Document() or add_heading raises), "save_error"
\* (doc.save raises before it creates the file), "save_partial" (doc.save
\* raises and leaves an incomplete file) or "ok"
save_to_docx(text, o) ==
  [ret   |-> (o = "ok"),
   built |-> (o # "create_error"),
   created |-> (o \in {"ok", "save_partial"}),
   heading |-> IF o # "create_error" THEN HeadingText ELSE "",
   paragraphs |-> IF o # "create_error" THEN DocxParagraphs(text) ELSE <<>>]

\* save_to_txt(text, output_path) under the outcome o: "open_error",
\* "write_error" (the file exists, its content is incomplete) or "ok"
save_to_txt(text, o) ==
  [ret |-> (o = "ok"), created |-> (o # "open_error"),
   content |-> IF o = "ok" THEN text ELSE <<>>]

(* ------------------------------ inputs ---------------------------------- *)
Script == <<"s">>

\* sys.argv
Argvs == {<<Script>>, <<Script, <<"f">>>>, <<Script, <<"g">>>>}

\* what the operator may type at the path prompt
PathInputs == {<<"f">>, <<" ", "\"", "f", "\"", " ">>, <<"g">>, <<"\"", "g">>, <<>>}

\* the file systems the run may start in: the sets of existing paths
FileSystems == {{}, {<<"f">>}, {<<"f">>, <<"g">>}}

\* the text a page may carry (embedded, or recognised by the OCR engine)
PageTexts == {<<>>, <<" ", "\n">>, <<"a">>, <<" ", "a", "\n", "\n", "b">>}

\* what the operator may type at the format prompt
ChoiceInputs == {<<"1">>, <<"2">>, <<"3">>, <<" ", "3", "\n">>, <<"4">>, <<>>, <<"1", "2">>}

DocxOutcomes == {"ok", "create_error", "save_error", "save_partial"}

TxtOutcomes == {"ok", "open_error", "write_error"}

\* texts over a small alphabet, for the writer taken alone
Alphabet == {"a", " ", "\n"}

Texts == UNION {[1..n -> Alphabet] : n \in 0..MaxLen}

(* ------------------------------- state ---------------------------------- *)
VARIABLES
  pc,             \* position in main() and in the extractor it is running
  argv,           \* sys.argv
  fs,             \* the existing paths
  pdf_path,       \* main: pdf_path
  extracted_text, \* main: extracted_text
  choice,         \* main: choice
  success,        \* main: success
  console,        \* the messages printed, in order
  calls,          \* the functions invoked, in order
  rets,           \* the values the extractors and writers returned, in order
  handles,        \* per document handle opened: how often it was closed
  files,          \* the output files created
  doc_len,        \* extractor: len(doc)
  page_num,       \* extractor: page_num
  text,           \* extractor: text / full_text
  pages,          \* extractor: what each page visited so far produced
  ret,            \* extractor: the value about to be returned
  document        \* save_to_docx: the document built by the last call

vars == <<pc, argv, fs, pdf_path, extracted_text, choice, success, console, calls,
          rets, handles, files, doc_len, page_num, text, pages, ret, document>>

main_vars == <<pdf_path, extracted_text, choice, success>>

local_vars == <<doc_len, page_num, text, pages, ret>>

NoDocument == [built |-> FALSE, heading |-> "", paragraphs |-> <<>>]

Msg(m, a) == [msg |-> m, arg |-> a]

Ret(f, v) == [fn |-> f, ret |-> v]

\* an output file: which writer made it, and whether it was written whole
File(k, whole) == [kind |-> k, complete |-> whole]

Init ==
  /\ pc = "Start"
  /\ argv \in Argvs
  /\ fs \in FileSystems
  /\ pdf_path = <<>>
  /\ extracted_text = None
  /\ choice = <<>>
  /\ success = FALSE
  /\ console = <<>>
  /\ calls = <<>>
  /\ rets = <<>>
  /\ handles = <<>>
  /\ files = {}
  /\ doc_len = 0
  /\ page_num = 0
  /\ text = <<>>
  /\ pages = <<>>
  /\ ret = None
  /\ document = NoDocument


Invoked(f) == Cardinality({i \in 1..Len(calls) : calls[i] = f})

Close(hs) == [hs EXCEPT ![Len(hs)] = @ + 1]

\* what one page gives the direct extractor: its embedded text, or an
\* exception of doc[page_num] / page.get_text()
SimpleOutcomes == {[kind |-> "text", s |-> t] : t \in PageTexts} \cup {[kind |-> "error", s |-> <<>>]}

\* what one page gives the OCR extractor: an exception while the page is
\* fetched, rasterized or converted (lines 49-57), an exception of
\* image_to_string (line 61), or the recognised text
OcrOutcomes ==
  {[kind |-> "text", s |-> t] : t \in PageTexts}
    \cup {[kind |-> "render_error", s |-> <<>>], [kind |-> "ocr_error", s |-> <<>>]}

(* ------------------------------- main() --------------------------------- *)
\* lines 133-136: the first setup_tesseract(), and its warning
Start ==
  /\ pc = "Start"
  /\ \E avail \in BOOLEAN :
       /\ calls' = Append(calls, "setup_tesseract")
       /\ rets' = Append(rets, Ret("setup_tesseract", avail))
       /\ console' = IF avail THEN console ELSE Append(console, Msg("tesseract_warning", <<>>))
  /\ pc' = "ResolveInput"
  /\ UNCHANGED <<argv, fs, main_vars, handles, files, local_vars, document>>

\* lines 139-149: the path from argv or from the prompt, and the existence test
ResolveInput ==
  /\ pc = "ResolveInput"
  /\ \E raw \in (IF Len(argv) > 1 THEN {<<>>} ELSE PathInputs) :
       LET p == ResolvePath(argv, raw) IN
         /\ pdf_path' = p
         /\ calls' = IF Len(argv) > 1 THEN calls ELSE Append(calls, "input")
         /\ IF FileMissing(p, fs)
            THEN /\ console' = Append(console, Msg("not_found", p))
                 /\ pc' = "Abort"
            ELSE /\ console' = Append(console, Msg("processing", p))
                 /\ pc' = "TryDirect"
  /\ UNCHANGED <<argv, fs, extracted_text, choice, success, rets, handles, files,
                 local_vars, document>>

\* line 153 into line 81: extract_text_simple is called and opens the document
TryDirect ==
  /\ pc = "TryDirect"
  /\ calls' = Append(calls, "extract_text_simple")
  /\ \/ \E n \in 0..MaxPages :
          /\ handles' = Append(handles, 0)
          /\ doc_len' = n
          /\ page_num' = 0
          /\ text' = <<>>
          /\ pages' = <<>>
          /\ pc' = "SimpleLoop"
          /\ UNCHANGED <<ret, console>>
     \/ /\ ret' = None
        /\ console' = Append(console, Msg("simple_error", <<>>))
        /\ pc' = "SimpleReturn"
        /\ UNCHANGED <<handles, doc_len, page_num, text, pages>>
  /\ UNCHANGED <<argv, fs, main_vars, rets, files, document>>

\* lines 84-89: one iteration of the loop; an exception leaves through
\* line 94 and returns None, without reaching doc.close()
SimplePage ==
  /\ pc = "SimpleLoop"
  /\ page_num < doc_len
  /\ \E o \in SimpleOutcomes :
       /\ pages' = Append(pages, o)
       /\ IF o.kind = "error"
          THEN /\ ret' = None
               /\ console' = Append(console, Msg("simple_error", <<>>))
               /\ pc' = "SimpleReturn"
               /\ UNCHANGED <<page_num, text>>
          ELSE /\ text' = AppendPage(text, page_num, o.s)
               /\ page_num' = page_num + 1
               /\ UNCHANGED <<ret, console, pc>>
  /\ UNCHANGED <<argv, fs, main_vars, calls, rets, handles, files, doc_len, document>>

\* lines 91-92: the loop is over: doc.close() and the return value
SimpleFinish ==
  /\ pc = "SimpleLoop"
  /\ page_num >= doc_len
  /\ handles' = Close(handles)
  /\ ret' = SimpleResult(text)
  /\ pc' = "SimpleReturn"
  /\ UNCHANGED <<argv, fs, main_vars, console, calls, rets, files, doc_len, page_num,
                 text, pages, document>>

\* lines 153-165: the result is bound to extracted_text and tested
SimpleReturn ==
  /\ pc = "SimpleReturn"
  /\ extracted_text' = ret
  /\ rets' = Append(rets, Ret("extract_text_simple", ret))
  /\ IF NeedsFallback(ret)
     THEN /\ console' = Append(console, Msg("simple_failed", <<>>))
          /\ pc' = "CheckOCR"
     ELSE /\ console' = Append(console, Msg("simple_ok", <<>>))
          /\ pc' = "CheckText"
  /\ doc_len' = 0 /\ page_num' = 0 /\ text' = <<>> /\ pages' = <<>> /\ ret' = None
  /\ UNCHANGED <<argv, fs, pdf_path, choice, success, calls, handles, files, document>>

\* lines 159-161: the second setup_tesseract()
CheckOCR ==
  /\ pc = "CheckOCR"
  /\ \E avail \in BOOLEAN :
       /\ calls' = Append(calls, "setup_tesseract")
       /\ rets' = Append(rets, Ret("setup_tesseract", avail))
       /\ IF avail
          THEN pc' = "TryOCR" /\ UNCHANGED console
          ELSE pc' = "Abort" /\ console' = Append(console, Msg("cannot_ocr", <<>>))
  /\ UNCHANGED <<argv, fs, main_vars, handles, files, local_vars, document>>

\* line 163 into line 43: extract_text_with_ocr is called and opens the document
TryOCR ==
  /\ pc = "TryOCR"
  /\ calls' = Append(calls, "extract_text_with_ocr")
  /\ \/ \E n \in 0..MaxPages :
          /\ handles' = Append(handles, 0)
          /\ doc_len' = n
          /\ page_num' = 0
          /\ text' = <<>>
          /\ pages' = <<>>
          /\ pc' = "OcrLoop"
          /\ UNCHANGED <<ret, console>>
     \/ /\ ret' = None
        /\ console' = Append(console, Msg("ocr_open_error", <<>>))
        /\ pc' = "OcrReturn"
        /\ UNCHANGED <<handles, doc_len, page_num, text, pages>>
  /\ UNCHANGED <<argv, fs, main_vars, rets, files, document>>

\* lines 48-69: one iteration of the loop.  Only image_to_string sits in the
\* inner try: its exception is printed and the loop goes on.  An exception of
\* the lines before it leaves through line 74 and returns None.
OcrPage ==
  /\ pc = "OcrLoop"
  /\ page_num < doc_len
  /\ \E o \in OcrOutcomes :
       /\ pages' = Append(pages, o)
       /\ CASE o.kind = "render_error" ->
                 /\ ret' = None
                 /\ console' = Append(console, Msg("ocr_open_error", <<>>))
                 /\ pc' = "OcrReturn"
                 /\ UNCHANGED <<page_num, text>>
            [] o.kind = "ocr_error" ->
                 /\ console' = Append(console, Msg("page_error", Dec(page_num + 1)))
                 /\ page_num' = page_num + 1
                 /\ UNCHANGED <<ret, text, pc>>
            [] OTHER ->
                 /\ text' = AppendPage(text, page_num, o.s)
                 /\ console' = Append(console,
                        Msg(IF Strip(o.s) # <<>> THEN "page_ok" ELSE "page_empty", Dec(page_num + 1)))
                 /\ page_num' = page_num + 1
                 /\ UNCHANGED <<ret, pc>>
  /\ UNCHANGED <<argv, fs, main_vars, calls, rets, handles, files, doc_len, document>>

\* lines 71-72: the loop is over: doc.close(), return full_text
OcrFinish ==
  /\ pc = "OcrLoop"
  /\ page_num >= doc_len
  /\ handles' = Close(handles)
  /\ ret' = Str(text)
  /\ pc' = "OcrReturn"
  /\ UNCHANGED <<argv, fs, main_vars, console, calls, rets, files, doc_len, page_num,
                 text, pages, document>>

\* line 163: the result is bound to extracted_text
OcrReturn ==
  /\ pc = "OcrReturn"
  /\ extracted_text' = ret
  /\ rets' = Append(rets, Ret("extract_text_with_ocr", ret))
  /\ pc' = "CheckText"
  /\ doc_len' = 0 /\ page_num' = 0 /\ text' = <<>> /\ pages' = <<>> /\ ret' = None
  /\ UNCHANGED <<argv, fs, pdf_path, choice, success, console, calls, handles, files,
                 document>>

\* lines 167-169
CheckText ==
  /\ pc = "CheckText"
  /\ IF ExtractionFailed(extracted_text)
     THEN pc' = "Abort" /\ console' = Append(console, Msg("no_text", <<>>))
     ELSE pc' = "Save" /\ UNCHANGED console
  /\ UNCHANGED <<argv, fs, main_vars, calls, rets, handles, files, local_vars, document>>

\* lines 177-185: the format prompt
Save ==
  /\ pc = "Save"
  /\ \E raw \in ChoiceInputs : choice' = Strip(raw)
  /\ calls' = Append(calls, "input_choice")
  /\ console' = Append(console, Msg("extracted", Dec(Len(extracted_text.s))))
  /\ success' = FALSE
  /\ pc' = "SaveDocx"
  /\ UNCHANGED <<argv, fs, pdf_path, extracted_text, rets, handles, files, local_vars,
                 document>>

\* lines 186-187
SaveDocx ==
  /\ pc = "SaveDocx"
  /\ IF WantsDocx(choice)
     THEN \E o \in DocxOutcomes :
            LET r == save_to_docx(extracted_text.s, o) IN
              /\ calls' = Append(calls, "save_to_docx")
              /\ rets' = Append(rets, [fn |-> "save_to_docx", ret |-> r.ret,
                                       text |-> extracted_text])
              /\ document' = [built |-> r.built, heading |-> r.heading,
                              paragraphs |-> r.paragraphs]
              /\ files' = IF r.created THEN files \cup {File("docx", r.ret)} ELSE files
              /\ success' = NewSuccess(r.ret, success)
     ELSE UNCHANGED <<calls, rets, document, files, success>>
  /\ pc' = "SaveTxt"
  /\ UNCHANGED <<argv, fs, pdf_path, extracted_text, choice, console, handles, local_vars>>

\* lines 188-189
SaveTxt ==
  /\ pc = "SaveTxt"
  /\ IF WantsTxt(choice)
     THEN \E o \in TxtOutcomes :
            LET r == save_to_txt(extracted_text.s, o) IN
              /\ calls' = Append(calls, "save_to_txt")
              /\ rets' = Append(rets, [fn |-> "save_to_txt", ret |-> r.ret,
                                       text |-> extracted_text])
              /\ files' = IF r.created THEN files \cup {File("txt", r.ret)} ELSE files
              /\ success' = NewSuccess(r.ret, success)
     ELSE UNCHANGED <<calls, rets, files, success>>
  /\ pc' = "Report"
  /\ UNCHANGED <<argv, fs, pdf_path, extracted_text, choice, console, handles, local_vars,
                 document>>

\* lines 191-195
Report ==
  /\ pc = "Report"
  /\ IF success
     THEN pc' = "Done" /\ console' = Append(console, Msg("completed", Dec(Len(extracted_text.s))))
     ELSE pc' = "SaveFailed" /\ console' = Append(console, Msg("save_failed", <<>>))
  /\ UNCHANGED <<argv, fs, main_vars, calls, rets, handles, files, local_vars, document>>

Next ==
  \/ Start \/ ResolveInput
  \/ TryDirect \/ SimplePage \/ SimpleFinish \/ SimpleReturn
  \/ CheckOCR \/ TryOCR \/ OcrPage \/ OcrFinish \/ OcrReturn
  \/ CheckText \/ Save \/ SaveDocx \/ SaveTxt \/ Report

Spec == Init /\ [][Next]_vars


(* --------------------- the document writer taken alone ------------------ *)
InitDocx ==
  /\ pc = "DocxCall"
  /\ argv = <<Script>>
  /\ fs = {}
  /\ pdf_path = <<>>
  /\ extracted_text \in {Str(t) : t \in Texts}
  /\ choice = <<"1">>
  /\ success = FALSE
  /\ console = <<>>
  /\ calls = <<>>
  /\ rets = <<>>
  /\ handles = <<>>
  /\ files = {}
  /\ doc_len = 0
  /\ page_num = 0
  /\ text = <<>>
  /\ pages = <<>>
  /\ ret = None
  /\ document = NoDocument

\* save_to_docx applied to a text, lines 98-115
DocxCall ==
  /\ pc = "DocxCall"
  /\ \E o \in DocxOutcomes :
       LET r == save_to_docx(extracted_text.s, o) IN
         /\ calls' = Append(calls, "save_to_docx")
         /\ rets' = Append(rets, [fn |-> "save_to_docx", ret |-> r.ret,
                                  text |-> extracted_text])
         /\ document' = [built |-> r.built, heading |-> r.heading,
                         paragraphs |-> r.paragraphs]
         /\ files' = IF r.created THEN files \cup {File("docx", r.ret)} ELSE files
         /\ success' = NewSuccess(r.ret, success)
  /\ pc' = "DocxDone"
  /\ UNCHANGED <<argv, fs, pdf_path, extracted_text, choice, console, handles, local_vars>>

NextDocx == DocxCall

SpecDocx == InitDocx /\ [][NextDocx]_vars


(* ------------------------- vocabulary of the claims --------------------- *)
\* main() has returned
Terminated == pc \in {"Abort", "Done", "SaveFailed"}

\* both writer steps of main() are behind it
AfterSave == pc \in {"Report", "Done", "SaveFailed"}

IsWriter(f) == f \in {"save_to_docx", "save_to_txt"}

\* the writers invoked, in order
WriterCalls == SelectSeq(calls, IsWriter)

HasRet(f) == \E i \in 1..Len(rets) : rets[i].fn = f

RetOf(f) == rets[CHOOSE i \in 1..Len(rets) : rets[i].fn = f].ret

\* the answers of setup_tesseract, in order: at start-up, then at CheckOCR
SetupRets == SelectSeq(rets, LAMBDA r : r.fn = "setup_tesseract")

CheckedOCR == Len(SetupRets) >= 2

\* s has a character that is not white space
HasInk(s) == \E i \in 1..Len(s) : s[i] \notin {" ", "\t", "\n", "\r", "\f"}

\* an extractor result without usable text: None, empty or white space only
Unusable(v) == v.null \/ ~HasInk(v.s)

\* the lines of t, cut at the newline positions
Breaks(t) == {0} \cup {i \in 1..Len(t) : t[i] = "\n"} \cup {Len(t) + 1}

NthBreak(t, k) == CHOOSE b \in Breaks(t) : Cardinality({x \in Breaks(t) : x < b}) = k - 1

Lines(t) ==
  [k \in 1..(Cardinality(Breaks(t)) - 1) |-> SubSeq(t, NthBreak(t, k) + 1, NthBreak(t, k + 1) - 1)]

NonBlankLines(t) == SelectSeq(Lines(t), HasInk)

\* the header of page k, written out
Marker(k) ==
  <<"\n", "-", "-", "-", " ", "P", "a", "g", "e", " ",
    <<"1", "2", "3", "4", "5", "6", "7", "8", "9">>[k],
    " ", "-", "-", "-", "\n">>

\* the blocks of the first k pages of ps: for each page that is not blank,
\* its header, its text and a newline
RECURSIVE BlocksUpTo(_, _)
BlocksUpTo(ps, k) ==
  IF k = 0 THEN <<>>
  ELSE BlocksUpTo(ps, k - 1)
         \o (IF HasInk(ps[k].s) THEN Marker(k) \o ps[k].s \o <<"\n">> ELSE <<>>)

(* -------------------------------- claims -------------------------------- *)

\* C1 as stated: a run that has ended either has an output file or is an
\* abort whose extraction gave no usable text; no run ends with usable text
\* and no output file.
C1_Original == Terminated => (files # {} \/ Unusable(extracted_text))

\* C1 amended: a run that has ended is in exactly one of three states.
\* Abort: no usable text, no format prompt, no writer invoked, no file.
\* Done: success is true and a writer returned true, leaving a whole file.
\* SaveFailed (line 195): the text is usable, success is false, no writer
\* returned true and no whole file exists; it is reached when the choice is
\* none of "1", "2", "3" or every writer invoked failed.
C1_Terminal ==
  Terminated =>
    /\ pc = "Abort" =>
         /\ WriterCalls = <<>> /\ Invoked("input_choice") = 0 /\ files = {}
         /\ Unusable(extracted_text)
    /\ pc = "Done" =>
         /\ success
         /\ \E f \in files : f.complete
         /\ \E i \in 1..Len(rets) : IsWriter(rets[i].fn) /\ rets[i].ret
    /\ pc = "SaveFailed" =>
         /\ ~success
         /\ ~Unusable(extracted_text)
         /\ \A f \in files : ~f.complete
         /\ \A i \in 1..Len(rets) : IsWriter(rets[i].fn) => ~rets[i].ret
         /\ \/ choice \notin {<<"1">>, <<"2">>, <<"3">>}
            \/ WriterCalls # <<>>

C1_Witness ==
  pc = "SaveFailed" /\ choice = <<"4">> /\ WriterCalls = <<>> /\ ~Unusable(extracted_text)

\* C2: each extractor is invoked at most once; the OCR extractor is invoked
\* only if the file exists, the direct extractor returned no usable text and
\* setup_tesseract answered true at CheckOCR; a run that has ended under
\* these three conditions has invoked it; it is never invoked after a direct
\* extraction that returned usable text.
C2_OcrIffFallback ==
  /\ Invoked("extract_text_simple") <= 1
  /\ Invoked("extract_text_with_ocr") <= 1
  /\ Invoked("extract_text_with_ocr") = 1 =>
       /\ pdf_path \in fs
       /\ HasRet("extract_text_simple")
       /\ Unusable(RetOf("extract_text_simple"))
       /\ CheckedOCR /\ SetupRets[2].ret
  /\ (/\ Terminated
      /\ pdf_path \in fs
      /\ HasRet("extract_text_simple")
      /\ Unusable(RetOf("extract_text_simple"))
      /\ CheckedOCR /\ SetupRets[2].ret) => Invoked("extract_text_with_ocr") = 1
  /\ (HasRet("extract_text_simple") /\ ~Unusable(RetOf("extract_text_simple"))) =>
       /\ Invoked("extract_text_with_ocr") = 0
       /\ ~CheckedOCR

C2_Witness ==
  /\ pc = "Done"
  /\ Invoked("extract_text_with_ocr") = 1
  /\ Invoked("extract_text_simple") = 1
  /\ RetOf("extract_text_simple").null

\* C3: every writer is handed a text that is not None and has a character
\* that is not white space; and once direct extraction has returned no
\* usable text and either setup_tesseract answered false at CheckOCR or the
\* OCR extractor returned no usable text, the run is at or before its Abort:
\* no format prompt, no writer invoked, no file created.
C3_NoTextNoOutput ==
  /\ \A i \in 1..Len(rets) :
       IsWriter(rets[i].fn) => ~rets[i].text.null /\ HasInk(rets[i].text.s)
  /\ (/\ HasRet("extract_text_simple")
      /\ Unusable(RetOf("extract_text_simple"))
      /\ \/ CheckedOCR /\ ~SetupRets[2].ret
         \/ HasRet("extract_text_with_ocr") /\ Unusable(RetOf("extract_text_with_ocr"))) =>
       /\ pc \in {"CheckText", "Abort"}
       /\ Invoked("input_choice") = 0
       /\ WriterCalls = <<>>
       /\ files = {}

\* OCR ran and returned the empty string, and the run aborted
C3_Witness ==
  /\ pc = "Abort"
  /\ HasRet("extract_text_with_ocr")
  /\ ~RetOf("extract_text_with_ocr").null
  /\ RetOf("extract_text_with_ocr").s = <<>>

\* C4: once the path is resolved and does not exist, main() has returned,
\* neither extractor and no writer was invoked, no file was created, and the
\* last message printed is the not-found error carrying exactly pdf_path.
C4_MissingFile ==
  (pc \notin {"Start", "ResolveInput"} /\ pdf_path \notin fs) =>
    /\ pc = "Abort"
    /\ Invoked("extract_text_simple") = 0
    /\ Invoked("extract_text_with_ocr") = 0
    /\ WriterCalls = <<>>
    /\ Invoked("input_choice") = 0
    /\ files = {}
    /\ handles = <<>>
    /\ console # <<>>
    /\ console[Len(console)] = [msg |-> "not_found", arg |-> pdf_path]

\* the path was typed in quotes at the prompt; it is reported stripped
C4_Witness ==
  /\ pc = "Abort"
  /\ Len(argv) = 1
  /\ pdf_path = <<"g">>
  /\ fs = {<<"f">>}
  /\ console[Len(console)] = [msg |-> "not_found", arg |-> <<"g">>]

\* C5: with choice "3", once main() is past its two writer steps the
\* document writer and then the plain-text writer have each been invoked
\* once, whatever the first returned, and success is the OR of their results;
\* between the two steps the document writer has already been invoked.
C5_BothAttempted ==
  /\ (AfterSave /\ choice = <<"3">>) =>
       /\ WriterCalls = <<"save_to_docx", "save_to_txt">>
       /\ success = (RetOf("save_to_docx") \/ RetOf("save_to_txt"))
  /\ (pc = "SaveTxt" /\ choice = <<"3">>) => WriterCalls = <<"save_to_docx">>

\* the document write succeeded and the text write, attempted all the same,
\* failed
C5_Witness ==
  /\ pc = "Done"
  /\ choice = <<"3">>
  /\ RetOf("save_to_docx")
  /\ HasRet("save_to_txt") /\ ~RetOf("save_to_txt")

\* C6: past the two writer steps, the writers invoked are those of the
\* choice: "1" the document writer only, "2" the plain-text writer only, "3"
\* both, anything else none; in that last case no file exists and success is
\* false.
C6_ChoiceSelectsWriters ==
  AfterSave =>
    /\ WriterCalls =
         CASE choice = <<"1">> -> <<"save_to_docx">>
           [] choice = <<"2">> -> <<"save_to_txt">>
           [] choice = <<"3">> -> <<"save_to_docx", "save_to_txt">>
           [] OTHER -> <<>>
    /\ choice \notin {<<"1">>, <<"2">>, <<"3">>} => (files = {} /\ ~success)

C6_Witness == pc = "SaveFailed" /\ choice = <<"1", "2">> /\ WriterCalls = <<>> /\ files = {}

\* C7 as stated: when the OCR extractor returns after having opened the
\* document and visited a page, it has visited every page and returns text,
\* not None.
C7_Claim ==
  (pc = "OcrReturn" /\ pages # <<>>) => (Len(pages) = doc_len /\ ~ret.null)

\* C8: when the direct extractor returns, it returns None exactly when the
\* library raised or no page has a character that is not white space;
\* otherwise every page was read and it returns, in page order, the blocks
\* of the pages that are not blank, each headed "--- Page N ---" with N the
\* 1-based index of its own page.
C8_SimpleResult ==
  pc = "SimpleReturn" =>
    LET raised == \E i \in 1..Len(pages) : pages[i].kind = "error"
        blank  == \A i \in 1..Len(pages) : ~HasInk(pages[i].s)
    IN /\ ret.null <=> (raised \/ blank)
       /\ ~ret.null => (Len(pages) = doc_len /\ ret.s = BlocksUpTo(pages, Len(pages)))

\* page 1 is blank, page 2 is not: the one marker says "Page 2"
C8_Witness ==
  /\ pc = "SimpleReturn"
  /\ Len(pages) = 2
  /\ pages[1].kind = "text" /\ ~HasInk(pages[1].s)
  /\ pages[2].kind = "text" /\ pages[2].s = <<"a">>
  /\ ret = Str(Marker(2) \o <<"a", "\n">>)

\* C9: a document that save_to_docx has built carries the fixed heading and
\* then exactly the lines of the text that are not blank, in order and
\* unchanged.
C9_DocxParagraphs ==
  document.built =>
    /\ document.heading = "Extracted PDF Text"
    /\ HasRet("save_to_docx")
    /\ document.paragraphs = NonBlankLines(rets[Len(rets)].text.s)

\* "a\n\na" gives the two paragraphs "a", "a"
C9_Witness ==
  /\ pc = "DocxDone"
  /\ extracted_text.s = <<"a", "\n", "\n", "a">>
  /\ document.built
  /\ document.paragraphs = << <<"a">>, <<"a">> >>

\* C10 as stated: outside the page loops of the extractors, every document
\* handle that was opened has been closed exactly once.
C10_Claim ==
  pc \notin {"SimpleLoop", "OcrLoop"} => \A h \in 1..Len(handles) : handles[h] = 1

====
